---- MODULE Spec2Model ----
(***************************************************************************)
(* Thumbnail production-and-caching pipeline of src/backend/server.py:     *)
(* cache-key derivation, the disk cache, process_image_worker, the shared  *)
(* thread pool and the batch / binary endpoints.                           *)
(*                                                                         *)
(* Text is a sequence of one-character strings, bytes are sequences of     *)
(* integers, an Optional[...] is the empty sequence (None) or a            *)
(* one-element sequence.                                                   *)
(***************************************************************************)
EXTENDS Integers, Sequences, FiniteSets, TLC

VARIABLES fs, cache, tasks, queue, reqs, loop, env, probe

vars == <<fs, cache, tasks, queue, reqs, loop, env, probe>>

(***************************************************************************)
(* Bounds of the model.                                                    *)
(***************************************************************************)
MaxPathLen == 2
MaxBytesLen == 2
CpuCount == 1
MaxRequests == 2
BatchRequests == 1
MaxFaults == 2
SeqRequests == 3
SeqMods == 2
RaceMods == 1
MaxSide == 6

None == <<>>
Some(x) == <<x>>
Min(a, b) == IF a < b THEN a ELSE b
Max(a, b) == IF a > b THEN a ELSE b

(***************************************************************************)
(* Text formatting: str(int) and the repr of a float, as an f-string       *)
(* renders them.  A modification time is kept in tenths of a second, so    *)
(* that 10 is the float 1.0 and 11 is 1.1.                                 *)
(***************************************************************************)
DigitChars == <<"0", "1", "2", "3", "4", "5", "6", "7", "8", "9">>

RECURSIVE StrNat(_)
StrNat(n) == IF n < 10 THEN <<DigitChars[n + 1]>>
             ELSE StrNat(n \div 10) \o <<DigitChars[(n % 10) + 1]>>

StrInt(n) == IF n < 0 THEN <<"-">> \o StrNat(-n) ELSE StrNat(n)

StrFloat(t) == StrNat(t \div 10) \o <<".">> \o <<DigitChars[(t % 10) + 1]>>

(***************************************************************************)
(* The file system: each path holds a file (content, mtime) or nothing.    *)
(***************************************************************************)
NoFile == [exists |-> FALSE, content |-> "none", mtime |-> 0]
File(c, t) == [exists |-> TRUE, content |-> c, mtime |-> t]

os_path_exists(fsys, path) == path \in DOMAIN fsys /\ fsys[path].exists

(***************************************************************************)
(* get_cache_key.  hashlib.md5(...).hexdigest() is an opaque digest of the *)
(* encoded text; no two texts of the bounded model collide, so the digest  *)
(* is kept as a wrapper of the text it was computed from.                  *)
(***************************************************************************)
md5_hexdigest(text) == [md5 |-> text]

CacheStringNoSeparator(image_path, size, mtime) ==
    image_path \o StrInt(size) \o StrFloat(mtime)

cache_string(image_path, size, mtime) ==
    image_path \o <<"_">> \o StrInt(size) \o <<"_">> \o StrFloat(mtime)

fallback_string(image_path, size) == image_path \o <<"_">> \o StrInt(size)

get_cache_key(fsys, image_path, size) ==
    IF os_path_exists(fsys, image_path)
    THEN md5_hexdigest(cache_string(image_path, size, fsys[image_path].mtime))
    ELSE md5_hexdigest(fallback_string(image_path, size))

(***************************************************************************)
(* The cache directory: a function from the keys that have a file          *)
(* <key>.jpg to that file's bytes.  Path.write_bytes is open(mode='wb'),   *)
(* which creates or truncates, then write at the descriptor's own offset.  *)
(***************************************************************************)
Zeros(n) == [i \in 1..n |-> 0]

OpenKeepingContent(c, key) ==
    [k \in DOMAIN c \cup {key} |-> IF k \in DOMAIN c THEN c[k] ELSE <<>>]

open_wb(c, key) ==
    [k \in DOMAIN c \cup {key} |-> IF k = key THEN <<>> ELSE c[k]]

write_at(c, key, off, data) ==
    LET old == c[key]
        head == IF Len(old) >= off THEN SubSeq(old, 1, off)
                ELSE old \o Zeros(off - Len(old))
        tail == SubSeq(old, off + Len(data) + 1, Len(old))
    IN [c EXCEPT ![key] = head \o data \o tail]

get_cached_thumbnail(c, cache_key) ==
    IF cache_key \in DOMAIN c THEN Some(c[cache_key]) ELSE None

save_cached_thumbnail(c, cache_key, image_bytes) ==
    write_at(open_wb(c, cache_key), cache_key, 0, image_bytes)

(***************************************************************************)
(* The image libraries, by what the pipeline asks of them.  A file content *)
(* is one of a few kinds; cv2.imread and PIL.Image.open each decode it or  *)
(* return nothing, and Image.save(format='JPEG') raises OSError for a mode *)
(* the JPEG writer does not take.                                          *)
(***************************************************************************)
Ok(v) == [ok |-> TRUE, val |-> v, err |-> ""]
Raise(e) == [ok |-> FALSE, val |-> <<>>, err |-> e]

Array(w, h, ch, dt, px) ==
    [w |-> w, h |-> h, channels |-> ch, dtype |-> dt, pix |-> px]
Picture(w, h, m, px) == [w |-> w, h |-> h, mode |-> m, pix |-> px]

cv2_imread(content) ==
    CASE content = "png1" -> Some(Array(4000, 2000, 3, "uint8", <<7>>))
      [] content = "png2" -> Some(Array(4000, 2000, 3, "uint8", <<8, 8>>))
      [] content = "exr" -> Some(Array(300, 600, 4, "float32", <<9>>))
      [] content = "ch2" -> Some(Array(400, 400, 2, "uint8", <<4>>))
      [] OTHER -> None

PIL_open(content) ==
    CASE content = "png1" -> Some(Picture(4000, 2000, "RGB", <<7>>))
      [] content = "png2" -> Some(Picture(4000, 2000, "RGB", <<8, 8>>))
      [] content = "gif" -> Some(Picture(300, 300, "P", <<5>>))
      [] content = "psd" -> Some(Picture(300, 400, "RGB", <<6>>))
      [] content = "ico" -> Some(Picture(256, 256, "RGBA", <<3, 3>>))
      [] OTHER -> None

JpegModes == {"1", "L", "RGB", "RGBX", "CMYK", "YCbCr"}

load_image_opencv(fsys, image_path) ==
    IF os_path_exists(fsys, image_path)
    THEN cv2_imread(fsys[image_path].content) ELSE None

load_image_pil(fsys, image_path) ==
    IF os_path_exists(fsys, image_path)
    THEN PIL_open(fsys[image_path].content) ELSE None

process_hdr_image(img_array) ==
    IF img_array.dtype \in {"float32", "float64"}
    THEN [img_array EXCEPT !.dtype = "uint8"] ELSE img_array

ModeOfChannels(ch) == CASE ch = 1 -> "L" [] ch = 3 -> "RGB" [] OTHER -> "RGBA"

\* "Convert RGBA to RGB for JPEG compatibility": paste on a white background.
FlattenRGBA(pil_img) ==
    IF pil_img.mode = "RGBA" THEN [pil_img EXCEPT !.mode = "RGB"] ELSE pil_img

Abs(x) == IF x < 0 THEN -x ELSE x

\* Image.thumbnail((size, size)): the image is left alone when it fits the
\* box, else the side that overflows more becomes size and the other is
\* round_aspect of the scaled value: floor or ceil, whichever keeps the
\* aspect ratio closer (floor on a tie), and at least 1.
PIL_thumbnail(pil_img, size) ==
    LET w == pil_img.w
        h == pil_img.h
    IN IF size >= w /\ size >= h THEN pil_img
       ELSE IF h >= w
       THEN LET fl == (size * w) \div h
                ce == IF (size * w) % h = 0 THEN fl ELSE fl + 1
                x == IF Abs(w * size - fl * h) <= Abs(w * size - ce * h)
                     THEN fl ELSE ce
            IN [pil_img EXCEPT !.w = Max(x, 1), !.h = size]
       ELSE LET fl == (size * h) \div w
                ce == IF (size * h) % w = 0 THEN fl ELSE fl + 1
                y == IF fl = 0 THEN fl
                     ELSE IF Abs(w * fl - size * h) * ce
                               <= Abs(w * ce - size * h) * fl
                     THEN fl ELSE ce
            IN [pil_img EXCEPT !.w = size, !.h = Max(y, 1)]

create_thumbnail(img_array, size) ==
    LET a == process_hdr_image(img_array)
    IN IF a.channels \notin {1, 3, 4}
       THEN Raise("Unsupported image shape")
       ELSE Ok(FlattenRGBA(PIL_thumbnail(
                Picture(a.w, a.h, ModeOfChannels(a.channels), a.pix), size)))

\* int((height * size) / width): a quotient of positive numbers, truncated.
create_thumbnail_optimized(img_array, size) ==
    LET a == process_hdr_image(img_array)
        new_width == IF a.w > a.h THEN size ELSE (a.w * size) \div a.h
        new_height == IF a.w > a.h THEN (a.h * size) \div a.w ELSE size
    IN IF new_width > 0 /\ new_height > 0 /\ a.channels \in {1, 3, 4}
       THEN Ok(FlattenRGBA(Picture(new_width, new_height,
                                   ModeOfChannels(a.channels), a.pix)))
       ELSE create_thumbnail(img_array, size)

image_to_bytes(pil_img, quality) ==
    IF pil_img.mode \in JpegModes
    THEN Ok(<<quality, pil_img.w, pil_img.h>> \o pil_img.pix)
    ELSE Raise("cannot write mode as JPEG")

(***************************************************************************)
(* process_image_worker.  A result is the dict the worker returns; the     *)
(* keys a dict lacks are kept as "dims = None" (no width/height key).      *)
(***************************************************************************)
Result(ok, bytes, dims, hit, path, err) ==
    [kind |-> "result", success |-> ok, image_bytes |-> bytes, dims |-> dims,
     from_cache |-> hit, path |-> path, error |-> err]

CacheHitResult(cached_bytes, image_path) ==
    Result(TRUE, cached_bytes, None, TRUE, image_path, "")

BuiltResult(img_bytes, pil_img, image_path) ==
    Result(TRUE, img_bytes, Some(<<pil_img.w, pil_img.h>>), FALSE,
           image_path, "")

FailedResult(image_path, err) == Result(FALSE, <<>>, None, FALSE, image_path, err)

WorkerRaises(image_path, err) ==
    [kind |-> "exception", success |-> FALSE, image_bytes |-> <<>>,
     dims |-> None, from_cache |-> FALSE, path |-> image_path, error |-> err]

\* except Exception as e: return {'success': False, 'error': str(e), ...}
worker_except(image_path, err) == FailedResult(image_path, err)

\* The decode / build / encode part of the worker, lines 330-371, up to the
\* cache write: the picture and its bytes, a raised exception, or nothing
\* when both decoders returned None.
BuildThumbnail(fsys, image_path, size) ==
    LET img_array == load_image_opencv(fsys, image_path)
        pil_img == load_image_pil(fsys, image_path)
    IN IF img_array # None
       THEN LET thumbnail == create_thumbnail_optimized(img_array[1], size)
            IN IF ~thumbnail.ok THEN Raise(thumbnail.err)
               ELSE LET img_bytes == image_to_bytes(thumbnail.val, 85)
                    IN IF ~img_bytes.ok THEN Raise(img_bytes.err)
                       ELSE Ok(Some([pil_img |-> thumbnail.val,
                                     img_bytes |-> img_bytes.val]))
       ELSE IF pil_img # None
       THEN LET small == FlattenRGBA(PIL_thumbnail(pil_img[1], size))
                img_bytes == image_to_bytes(small, 85)
            IN IF ~img_bytes.ok THEN Raise(img_bytes.err)
               ELSE Ok(Some([pil_img |-> small, img_bytes |-> img_bytes.val]))
       ELSE Ok(None)

\* save_cached_thumbnail's "except Exception: print(...)": the request goes
\* on to return the result it built.
SaveErrorPropagates(image_path, built) ==
    worker_except(image_path, "cache save failed")

after_save_error(image_path, built) ==
    BuiltResult(built.img_bytes, built.pil_img, image_path)

\* get_cached_thumbnail's "except: return None": a failed read is a miss.
after_read_error(image_path) == None

(***************************************************************************)
(* The server state.                                                       *)
(*   fs     the source files                                               *)
(*   cache  CACHE_DIR                                                      *)
(*   tasks  every call of process_image_worker handed to thread_pool, with *)
(*          its position (pc) and locals                                   *)
(*   queue  the thread pool's work queue (task ids, first in first out)    *)
(*   reqs   the HTTP requests with their responses                         *)
(*   loop   the asyncio event loop: free, or inside a handler that does    *)
(*          not await                                                      *)
(*   env    what the clients and the host may still do (requests, file     *)
(*          modifications, I/O faults left) and the inputs they draw from  *)
(*   probe  history kept for the properties: the last served result per    *)
(*          (path, size); the inputs and outputs of SpecKey and SpecCache  *)
(***************************************************************************)
MAX_WORKERS == Min(32, CpuCount + 4)

NoProbe == [kind |-> "server", served |-> <<>>]
IdleLoop == [busy |-> FALSE, req |-> 0, idx |-> 0]
NoResponse == [status |-> 0]

Idle ==
    /\ tasks = <<>>
    /\ queue = <<>>
    /\ reqs = <<>>
    /\ loop = IdleLoop

RunningPcs == {"key", "lookup", "load", "open", "write"}
Running == {t \in DOMAIN tasks : tasks[t].pc \in RunningPcs}
Served(path, size) ==
    IF <<path, size>> \in DOMAIN probe.served
    THEN Some(probe.served[<<path, size>>]) ELSE None

NewTask(r, image_path, size) ==
    [req |-> r, path |-> image_path, size |-> size, pc |-> "queued",
     cache_key |-> None, built |-> None, result |-> None,
     loaded |-> None, io_failed |-> FALSE, wrote |-> FALSE, off |-> 0,
     prev |-> Served(image_path, size), seen0 |-> fs[image_path],
     disturbed |-> FALSE]

\* loop.run_in_executor(thread_pool, process_image_worker, path, size) for
\* each path, by request r.
Submit(r, paths, size) ==
    /\ Len(tasks) + Len(paths) <= env.maxtasks
    /\ tasks' = tasks \o [i \in 1..Len(paths) |-> NewTask(r, paths[i], size)]
    /\ queue' = queue \o [i \in 1..Len(paths) |-> Len(tasks) + i]

MayAccept ==
    /\ ~loop.busy
    /\ env.reqs > 0
    /\ env.serial => \A r \in DOMAIN reqs : reqs[r].state = "done"

Accepted == [env EXCEPT !.reqs = @ - 1]

\* A worker thread takes the next work item when one of the MAX_WORKERS
\* threads is free.
TaskStart ==
    /\ queue # <<>>
    /\ Cardinality(Running) < MAX_WORKERS
    /\ tasks' = [tasks EXCEPT ![Head(queue)].pc = "key"]
    /\ queue' = Tail(queue)
    /\ UNCHANGED <<fs, cache, reqs, loop, env, probe>>

\* The worker returns: the future is done, the thread is free again.
Finish(t, res, faulted) ==
    /\ tasks' = [tasks EXCEPT ![t].pc = "done", ![t].result = Some(res),
                              ![t].io_failed = @ \/ faulted,
                              ![t].wrote = (tasks[t].pc = "write" /\ ~faulted)]
    /\ probe' = [probe EXCEPT !.served =
            LET k == <<tasks[t].path, tasks[t].size>>
            IN [x \in DOMAIN probe.served \cup {k} |->
                   IF x = k THEN [file |-> fs[tasks[t].path], result |-> res,
                                  clean |-> ~tasks[t].disturbed]
                   ELSE probe.served[x]]]

TaskKey(t) ==
    /\ tasks[t].pc = "key"
    /\ tasks' = [tasks EXCEPT
            ![t].cache_key = Some(get_cache_key(fs, tasks[t].path, tasks[t].size)),
            ![t].pc = "lookup"]
    /\ UNCHANGED <<fs, cache, queue, reqs, loop, env, probe>>

\* cached_bytes = get_cached_thumbnail(cache_key); if cached_bytes: return
TaskLookup(t) ==
    /\ tasks[t].pc = "lookup"
    /\ LET cached_bytes == get_cached_thumbnail(cache, tasks[t].cache_key[1])
       IN IF cached_bytes # None /\ cached_bytes[1] # <<>>
          THEN Finish(t, CacheHitResult(cached_bytes[1], tasks[t].path), FALSE)
          ELSE /\ tasks' = [tasks EXCEPT ![t].pc = "load"]
               /\ probe' = probe
    /\ UNCHANGED <<fs, cache, queue, reqs, loop, env>>

\* cache_file.read_bytes() raises.
TaskLookupFails(t) ==
    /\ tasks[t].pc = "lookup"
    /\ env.faults > 0
    /\ tasks[t].cache_key[1] \in DOMAIN cache
    /\ LET after == after_read_error(tasks[t].path)
       IN IF after # None
          THEN Finish(t, after[1], TRUE)
          ELSE /\ tasks' = [tasks EXCEPT ![t].pc = "load",
                                         ![t].io_failed = TRUE]
               /\ probe' = probe
    /\ env' = [env EXCEPT !.faults = @ - 1]
    /\ UNCHANGED <<fs, cache, queue, reqs, loop>>

TaskLoad(t) ==
    /\ tasks[t].pc = "load"
    /\ LET out == BuildThumbnail(fs, tasks[t].path, tasks[t].size)
       IN IF ~out.ok
          THEN Finish(t, worker_except(tasks[t].path, out.err), FALSE)
          ELSE IF out.val = None
          THEN Finish(t, FailedResult(tasks[t].path, "Failed to load image"), FALSE)
          ELSE /\ tasks' = [tasks EXCEPT ![t].pc = "open",
                                         ![t].built = out.val,
                                         ![t].loaded = Some(fs[tasks[t].path])]
               /\ probe' = probe
    /\ UNCHANGED <<fs, cache, queue, reqs, loop, env>>

\* A save that first clears the cache directory.
OpenInClearedDir(t) ==
    /\ tasks[t].pc = "open"
    /\ cache' = open_wb(<<>>, tasks[t].cache_key[1])
    /\ tasks' = [tasks EXCEPT ![t].pc = "write"]
    /\ UNCHANGED <<fs, queue, reqs, loop, env, probe>>

\* save_cached_thumbnail, first half: open(cache_file, 'wb').
TaskOpen(t) ==
    /\ tasks[t].pc = "open"
    /\ cache' = open_wb(cache, tasks[t].cache_key[1])
    /\ tasks' = [tasks EXCEPT ![t].pc = "write"]
    /\ UNCHANGED <<fs, queue, reqs, loop, env, probe>>

TaskOpenFails(t) ==
    /\ tasks[t].pc = "open"
    /\ env.faults > 0
    /\ Finish(t, after_save_error(tasks[t].path, tasks[t].built[1]), TRUE)
    /\ env' = [env EXCEPT !.faults = @ - 1]
    /\ UNCHANGED <<fs, cache, queue, reqs, loop>>

\* save_cached_thumbnail, second half: write(image_bytes), then the return.
\* The bytes not yet in the file go out at the handle's offset.
TaskWrite(t) ==
    /\ tasks[t].pc = "write"
    /\ cache' = write_at(cache, tasks[t].cache_key[1], tasks[t].off,
                         SubSeq(tasks[t].built[1].img_bytes, tasks[t].off + 1,
                                Len(tasks[t].built[1].img_bytes)))
    /\ Finish(t, BuiltResult(tasks[t].built[1].img_bytes,
                             tasks[t].built[1].pil_img, tasks[t].path), FALSE)
    /\ UNCHANGED <<fs, queue, reqs, loop, env>>

\* write(image_bytes) is not one step for a reader of the same file: the
\* bytes reach the file front to back, and a concurrent read_bytes() may
\* run when only the first n of them are there.
TaskWritePart(t) ==
    /\ tasks[t].pc = "write"
    /\ tasks[t].off = 0
    /\ \E n \in 1..(Len(tasks[t].built[1].img_bytes) - 1) :
         /\ cache' = write_at(cache, tasks[t].cache_key[1], 0,
                              SubSeq(tasks[t].built[1].img_bytes, 1, n))
         /\ tasks' = [tasks EXCEPT ![t].off = n]
    /\ UNCHANGED <<fs, queue, reqs, loop, env, probe>>

\* The write raises (disk full) after some prefix of the bytes went out.
TaskWriteFails(t) ==
    /\ tasks[t].pc = "write"
    /\ env.faults > 0
    /\ \E n \in 0..(Len(tasks[t].built[1].img_bytes) - 1) :
         cache' = write_at(cache, tasks[t].cache_key[1], 0,
                           SubSeq(tasks[t].built[1].img_bytes, 1, n))
    /\ Finish(t, after_save_error(tasks[t].path, tasks[t].built[1]), TRUE)
    /\ env' = [env EXCEPT !.faults = @ - 1]
    /\ UNCHANGED <<fs, queue, reqs, loop>>

\* Something outside the server rewrites (or touches) a source file, which
\* gives it another modification time.
ModifyFile ==
    /\ env.mods > 0
    /\ \E p \in DOMAIN fs, c \in env.contents, m \in env.mtimes :
         /\ fs[p].exists
         /\ m # fs[p].mtime
         /\ fs' = [fs EXCEPT ![p] = File(c, m)]
         /\ tasks' = [t \in DOMAIN tasks |->
                IF tasks[t].path = p /\ tasks[t].pc # "done"
                THEN [tasks[t] EXCEPT !.disturbed = TRUE] ELSE tasks[t]]
    /\ env' = [env EXCEPT !.mods = @ - 1]
    /\ UNCHANGED <<cache, queue, reqs, loop, probe>>

(***************************************************************************)
(* The endpoints.  A handler that awaits the pool is two actions: the      *)
(* request up to the await, and the rest once its futures are done.  A     *)
(* handler that never awaits keeps the event loop until it returns.        *)
(***************************************************************************)
Request(kind, paths, size, ts, state, response) ==
    [kind |-> kind, paths |-> paths, size |-> size, tasks |-> ts,
     state |-> state, response |-> response, thumbs |-> <<>>, processed |-> 0]

HTTPException(status, detail) ==
    [http |-> TRUE, status |-> status, detail |-> detail]
OtherException(detail) == [http |-> FALSE, status |-> 0, detail |-> detail]

BinaryResponse(status, detail, content, hit, dims) ==
    [status |-> status, detail |-> detail, content |-> content,
     from_cache |-> hit, dims |-> dims]
ErrorResponse(exc) == BinaryResponse(exc.status, exc.detail, <<>>, FALSE, None)

\* /batch-thumbnails-parallel ------------------------------------------------
Existing(paths) == SelectSeq(paths, LAMBDA p : os_path_exists(fs, p))

ParallelEntry(res) ==
    IF res.success
    THEN [path |-> res.path, success |-> TRUE, image_bytes |-> res.image_bytes,
          width |-> IF res.dims # None THEN res.dims[1][1] ELSE 0,
          height |-> IF res.dims # None THEN res.dims[1][2] ELSE 0,
          from_cache |-> res.from_cache, error |-> ""]
    ELSE [path |-> res.path, success |-> FALSE, image_bytes |-> <<>>,
          width |-> 0, height |-> 0, from_cache |-> FALSE,
          error |-> res.error]

ParallelResponse(results) ==
    LET returned == SelectSeq(results, LAMBDA x : x.kind # "exception")
        good == SelectSeq(returned, LAMBDA x : x.success)
    IN [status |-> 200, success |-> TRUE,
        thumbnails |-> [i \in 1..Len(returned) |-> ParallelEntry(returned[i])],
        total_processed |-> Len(good),
        cache_hits |-> Len(SelectSeq(good, LAMBDA x : x.from_cache)),
        error |-> ""]

NoValidPaths ==
    [status |-> 200, success |-> FALSE, thumbnails |-> <<>>,
     total_processed |-> 0, cache_hits |-> 0,
     error |-> "No valid image files found"]

ParallelBatchRequest ==
    /\ MayAccept
    /\ \E paths \in env.batches, size \in env.sizes :
         LET valid_paths == Existing(paths)
             r == Len(reqs) + 1
         IN IF valid_paths = <<>>
            THEN /\ reqs' = Append(reqs, Request("parallel", paths, size, <<>>,
                                                 "done", NoValidPaths))
                 /\ UNCHANGED <<tasks, queue>>
            ELSE /\ reqs' = Append(reqs, Request("parallel", paths, size,
                        [i \in 1..Len(valid_paths) |-> Len(tasks) + i],
                        "awaiting", NoResponse))
                 /\ Submit(r, valid_paths, size)
    /\ env' = Accepted
    /\ UNCHANGED <<fs, cache, loop, probe>>

\* A gather that completes only when every item has succeeded.
WaitsForSuccess(r) ==
    \A i \in 1..Len(reqs[r].tasks) :
        /\ tasks[reqs[r].tasks[i]].pc = "done"
        /\ tasks[reqs[r].tasks[i]].result[1].success

AllDone(r) == \A i \in 1..Len(reqs[r].tasks) : tasks[reqs[r].tasks[i]].pc = "done"
ResultsOf(r) == [i \in 1..Len(reqs[r].tasks) |-> tasks[reqs[r].tasks[i]].result[1]]

\* results = await asyncio.gather(*tasks, return_exceptions=True) and on.
ParallelBatchFinish(r) ==
    /\ ~loop.busy
    /\ reqs[r].kind = "parallel" /\ reqs[r].state = "awaiting"
    /\ AllDone(r)
    /\ reqs' = [reqs EXCEPT ![r].state = "done",
                            ![r].response = ParallelResponse(ResultsOf(r))]
    /\ UNCHANGED <<fs, cache, tasks, queue, loop, env, probe>>

\* /thumbnail-binary -----------------------------------------------------------
\* except HTTPException: raise / except Exception as e: raise HTTPException(500)
thumbnail_binary_except(exc) ==
    IF exc.http THEN exc ELSE HTTPException(500, exc.detail)

ThumbnailBinaryRequest ==
    /\ MayAccept
    /\ \E image_path \in env.paths, size \in env.sizes :
         IF ~os_path_exists(fs, image_path)
         THEN /\ reqs' = Append(reqs, Request("binary", <<image_path>>, size, <<>>,
                    "done", ErrorResponse(thumbnail_binary_except(
                                HTTPException(404, "Image file not found")))))
              /\ UNCHANGED <<tasks, queue>>
         ELSE /\ reqs' = Append(reqs, Request("binary", <<image_path>>, size,
                    <<Len(tasks) + 1>>, "awaiting", NoResponse))
              /\ Submit(Len(reqs) + 1, <<image_path>>, size)
    /\ env' = Accepted
    /\ UNCHANGED <<fs, cache, loop, probe>>

ThumbnailBinaryResponse(result) ==
    IF result.kind = "exception"
    THEN ErrorResponse(thumbnail_binary_except(OtherException(result.error)))
    ELSE IF result.success
    THEN BinaryResponse(200, "", result.image_bytes, result.from_cache,
                        result.dims)
    ELSE ErrorResponse(thumbnail_binary_except(HTTPException(500, result.error)))

ThumbnailBinaryFinish(r) ==
    /\ ~loop.busy
    /\ reqs[r].kind = "binary" /\ reqs[r].state = "awaiting"
    /\ AllDone(r)
    /\ reqs' = [reqs EXCEPT ![r].state = "done",
                            ![r].response = ThumbnailBinaryResponse(ResultsOf(r)[1])]
    /\ UNCHANGED <<fs, cache, tasks, queue, loop, env, probe>>

\* /batch-thumbnails (legacy): every item is decoded by the handler itself ----
image_to_data_url(pil_img, quality) ==
    LET img_data == image_to_bytes(pil_img, quality)
    IN IF img_data.ok
       THEN Ok([mime |-> "image/jpeg", base64 |-> img_data.val])
       ELSE img_data

ThumbnailResult(ok, url, dims, err) ==
    [success |-> ok, data_url |-> url, dims |-> dims, error |-> err]

LegacyFromPicture(pic) ==
    LET data_url == image_to_data_url(pic, 85)
    IN IF data_url.ok
       THEN ThumbnailResult(TRUE, Some(data_url.val), Some(<<pic.w, pic.h>>), "")
       ELSE ThumbnailResult(FALSE, None, None, data_url.err)

LegacyItem(fsys, image_path, size) ==
    LET img_array == load_image_opencv(fsys, image_path)
        pil_img == load_image_pil(fsys, image_path)
    IN IF ~os_path_exists(fsys, image_path)
       THEN ThumbnailResult(FALSE, None, None, "Image file not found")
       ELSE IF img_array # None
       THEN LET thumbnail == create_thumbnail(img_array[1], size)
            IN IF thumbnail.ok THEN LegacyFromPicture(thumbnail.val)
               ELSE ThumbnailResult(FALSE, None, None, thumbnail.err)
       ELSE IF pil_img # None
       THEN LegacyFromPicture(FlattenRGBA(PIL_thumbnail(pil_img[1], size)))
       ELSE ThumbnailResult(FALSE, None, None,
                            "Failed to load image with both OpenCV and PIL")

LegacyBatchRequest ==
    /\ MayAccept
    /\ \E paths \in env.legacy, size \in env.sizes :
         reqs' = Append(reqs, Request("legacy", paths, size, <<>>, "inline",
                                      NoResponse))
    /\ loop' = [busy |-> TRUE, req |-> Len(reqs) + 1, idx |-> 1]
    /\ env' = Accepted
    /\ UNCHANGED <<fs, cache, tasks, queue, probe>>

LegacyBatchItem ==
    /\ loop.busy
    /\ loop.idx <= Len(reqs[loop.req].paths)
    /\ LET r == loop.req
           image_path == reqs[r].paths[loop.idx]
           item == LegacyItem(fs, image_path, reqs[r].size)
           old == reqs[r].thumbs
       IN reqs' = [reqs EXCEPT
              ![r].thumbs = [p \in DOMAIN old \cup {image_path} |->
                                IF p = image_path THEN item ELSE old[p]],
              ![r].processed = IF item.success THEN @ + 1 ELSE @]
    /\ loop' = [loop EXCEPT !.idx = @ + 1]
    /\ UNCHANGED <<fs, cache, tasks, queue, env, probe>>

LegacyBatchFinish ==
    /\ loop.busy
    /\ loop.idx > Len(reqs[loop.req].paths)
    /\ reqs' = [reqs EXCEPT ![loop.req].state = "done",
            ![loop.req].response =
                [status |-> 200, success |-> TRUE,
                 thumbnails |-> reqs[loop.req].thumbs,
                 total_processed |-> reqs[loop.req].processed, error |-> ""]]
    /\ loop' = IdleLoop
    /\ UNCHANGED <<fs, cache, tasks, queue, env, probe>>

\* /full-image-binary: decoded by the handler itself, OpenCV only --------------
\* except Exception as e: raise HTTPException(status_code=500, detail=str(e))
full_image_binary_except(exc) == HTTPException(500, exc.detail)

FullImageBinary(fsys, image_path, max_size) ==
    LET img_array == load_image_opencv(fsys, image_path)
    IN IF ~os_path_exists(fsys, image_path)
       THEN ErrorResponse(full_image_binary_except(
                HTTPException(404, "Image file not found")))
       ELSE IF img_array = None
       THEN ErrorResponse(full_image_binary_except(
                HTTPException(500, "Failed to load full image")))
       ELSE LET a == process_hdr_image(img_array[1])
                pic == Picture(a.w, a.h, ModeOfChannels(a.channels), a.pix)
                sized == IF max_size > 0 THEN PIL_thumbnail(pic, max_size) ELSE pic
                img_bytes == image_to_bytes(FlattenRGBA(sized), 95)
            IN IF a.channels \notin {1, 3, 4}
               THEN ErrorResponse(full_image_binary_except(
                        OtherException("Unsupported image shape")))
               ELSE IF ~img_bytes.ok
               THEN ErrorResponse(full_image_binary_except(
                        OtherException(img_bytes.err)))
               ELSE BinaryResponse(200, "", img_bytes.val, FALSE,
                                   Some(<<sized.w, sized.h>>))

FullImageBinaryRequest ==
    /\ MayAccept
    /\ \E image_path \in env.paths, max_size \in {0} \cup env.sizes :
         reqs' = Append(reqs, Request("full-binary", <<image_path>>, max_size,
                    <<>>, "done", FullImageBinary(fs, image_path, max_size)))
    /\ env' = Accepted
    /\ UNCHANGED <<fs, cache, tasks, queue, loop, probe>>

(***************************************************************************)
(* SpecKey: get_cache_key applied to two requests drawn from bounded sets. *)
(***************************************************************************)
PathChars == {"a", "_", "1", "."}

RECURSIVE TextsUpTo(_)
TextsUpTo(n) ==
    IF n = 0 THEN {<<>>}
    ELSE LET shorter == TextsUpTo(n - 1)
         IN shorter \cup {t \o <<ch>> : t \in shorter, ch \in PathChars}

KeyPaths == TextsUpTo(MaxPathLen) \ {<<>>}
KeySizes == {1, 11}
KeyFiles == {NoFile, File("png1", 10), File("png1", 11), File("png2", 10)}
KeyRequests == [path : KeyPaths, size : KeySizes, file : KeyFiles]

KeyOf(r) == get_cache_key([p \in {r.path} |-> r.file], r.path, r.size)

InitKey ==
    /\ fs = <<>> /\ cache = <<>> /\ env = <<>>
    /\ Idle
    /\ \E a \in KeyRequests, b \in KeyRequests :
         probe = [kind |-> "key", a |-> a, b |-> b, done |-> FALSE]

ComputeKeys ==
    /\ probe.kind = "key" /\ ~probe.done
    /\ probe' = [kind |-> "key", a |-> probe.a, b |-> probe.b, done |-> TRUE,
                 ka |-> KeyOf(probe.a), kb |-> KeyOf(probe.b),
                 ka2 |-> KeyOf(probe.a)]
    /\ UNCHANGED <<fs, cache, tasks, queue, reqs, loop, env>>

NextKey == ComputeKeys
SpecKey == InitKey /\ [][NextKey]_vars

MtimeOf(r) == IF r.file.exists THEN Some(r.file.mtime) ELSE None
SameKeyInputs(a, b) ==
    a.path = b.path /\ a.size = b.size /\ MtimeOf(a) = MtimeOf(b)

\* C3: two requests get the same cache key if and only if their path, size
\* and modification time (or its absence) are all equal; in particular a
\* changed modification time alone changes the key.
C3_KeyIffInputs ==
    (probe.kind = "key" /\ probe.done) =>
        /\ (probe.ka = probe.kb) <=> SameKeyInputs(probe.a, probe.b)
        /\ (/\ probe.a.path = probe.b.path /\ probe.a.size = probe.b.size
            /\ probe.a.file.exists /\ probe.b.file.exists
            /\ probe.a.file.mtime # probe.b.file.mtime) => probe.ka # probe.kb

C3_Witness ==
    /\ probe.kind = "key" /\ probe.done
    /\ probe.a.path = <<"a", "_">> /\ probe.b.path = <<"a">>
    /\ probe.a.size = 1 /\ probe.b.size = 1
    /\ ~probe.a.file.exists /\ probe.b.file.exists
    /\ probe.ka # probe.kb

(***************************************************************************)
(* SpecCache: a sequence of cache operations on a few keys.  A failing     *)
(* write either fails at open (the file is untouched) or after open, and   *)
(* then leaves a truncated file holding a prefix of the bytes.  The        *)
(* history of saves (probe.written) is kept while no write has failed.     *)
(***************************************************************************)
RECURSIVE BytesUpTo(_)
BytesUpTo(n) ==
    IF n = 0 THEN {<<>>}
    ELSE LET shorter == BytesUpTo(n - 1)
         IN shorter \cup {b \o <<x>> : b \in shorter, x \in {0, 1}}

ProbeBytes == BytesUpTo(MaxBytesLen)
ProbeKeys == {get_cache_key(<<>>, <<"a">>, s) : s \in {1, 2}}

InitCache ==
    /\ fs = <<>> /\ cache = <<>> /\ env = <<>>
    /\ Idle
    /\ probe = [kind |-> "cache", written |-> <<>>, failed |-> FALSE,
                got |-> None]

CacheSaveOp ==
    /\ probe.kind = "cache"
    /\ \E k \in ProbeKeys, b \in ProbeBytes :
         /\ cache' = save_cached_thumbnail(cache, k, b)
         /\ probe' = [probe EXCEPT
                !.written = [x \in DOMAIN probe.written \cup {k} |->
                                IF x = k THEN b ELSE probe.written[x]],
                !.got = None]
    /\ UNCHANGED <<fs, tasks, queue, reqs, loop, env>>

CacheSaveFails ==
    /\ probe.kind = "cache"
    /\ \E k \in ProbeKeys, b \in ProbeBytes :
         \/ cache' = cache
         \/ \E n \in 0..Len(b) :
              cache' = write_at(open_wb(cache, k), k, 0, SubSeq(b, 1, n))
    /\ probe' = [probe EXCEPT !.failed = TRUE, !.got = None, !.written = <<>>]
    /\ UNCHANGED <<fs, tasks, queue, reqs, loop, env>>

CacheGetOp ==
    /\ probe.kind = "cache"
    /\ \E k \in ProbeKeys :
         probe' = [probe EXCEPT
                !.got = Some([key |-> k,
                              value |-> get_cached_thumbnail(cache, k)])]
    /\ UNCHANGED <<fs, cache, tasks, queue, reqs, loop, env>>

NextCache == CacheSaveOp \/ CacheSaveFails \/ CacheGetOp
SpecCache == InitCache /\ [][NextCache]_vars

LastWritten(k) ==
    IF k \in DOMAIN probe.written THEN Some(probe.written[k]) ELSE None

\* C2: while no write has failed, a get returns exactly the bytes of the most
\* recent save under that key, and a miss (None) for a key never written.
C2_RoundTrip ==
    (probe.kind = "cache" /\ ~probe.failed /\ probe.got # None) =>
        probe.got[1].value = LastWritten(probe.got[1].key)

C2_Witness ==
    /\ probe.kind = "cache" /\ ~probe.failed /\ probe.got # None
    /\ probe.got[1].value = Some(<<1, 0>>)
    /\ \E k \in DOMAIN cache : k # probe.got[1].key /\ cache[k] = <<0, 1>>

(***************************************************************************)
(* The server specifications.  They share every action and differ in what  *)
(* the environment does: which endpoints are called, with which paths, and *)
(* whether files change or cache I/O fails meanwhile.                      *)
(***************************************************************************)
PathA == <<"a">>
PathB == <<"b">>
PathM == <<"m">>
ThumbSize == 200

Env(nreqs, nmods, nfaults, contents, paths, batches, legacy, serial) ==
    [reqs |-> nreqs, mods |-> nmods, faults |-> nfaults, contents |-> contents,
     mtimes |-> {10, 11}, paths |-> paths, batches |-> batches,
     legacy |-> legacy,
     sizes |-> {ThumbSize}, serial |-> serial,
     maxtasks |-> MAX_WORKERS + 1]

InitServer(files, e) ==
    /\ fs \in files
    /\ cache = <<>>
    /\ Idle
    /\ env = e
    /\ probe = NoProbe

WorkerStep ==
    \/ TaskStart
    \/ \E t \in DOMAIN tasks : TaskKey(t)
    \/ \E t \in DOMAIN tasks : TaskLookup(t)
    \/ \E t \in DOMAIN tasks : TaskLoad(t)
    \/ \E t \in DOMAIN tasks : TaskOpen(t)
    \/ \E t \in DOMAIN tasks : TaskWrite(t)

WorkerFault ==
    \/ \E t \in DOMAIN tasks : TaskLookupFails(t)
    \/ \E t \in DOMAIN tasks : TaskOpenFails(t)
    \/ \E t \in DOMAIN tasks : TaskWriteFails(t)

WorkerPartialWrite == \E t \in DOMAIN tasks : TaskWritePart(t)

ThumbnailBinary ==
    \/ ThumbnailBinaryRequest
    \/ \E r \in DOMAIN reqs : ThumbnailBinaryFinish(r)

ParallelBatch ==
    \/ ParallelBatchRequest
    \/ \E r \in DOMAIN reqs : ParallelBatchFinish(r)

LegacyBatch == LegacyBatchRequest \/ LegacyBatchItem \/ LegacyBatchFinish

\* SpecSeq: /thumbnail-binary requests for one path, one after the other,
\* the file rewritten between them.
SeqContents == {"png1", "png2", "gif", "psd"}
InitSeq ==
    InitServer({[p \in {PathA} |-> File(c, 10)] : c \in SeqContents},
               Env(SeqRequests, SeqMods, 0, SeqContents, {PathA}, {}, {},
                   TRUE))
NextSeq == ThumbnailBinary \/ WorkerStep \/ ModifyFile
SpecSeq == InitSeq /\ [][NextSeq]_vars

\* SpecRace: /thumbnail-binary requests for one path in flight together,
\* the file rewritten meanwhile, a cache file read while it is written.
RaceContents == {"png1", "png2"}
InitRace ==
    InitServer({[p \in {PathA} |-> File(c, 10)] : c \in RaceContents},
               Env(MaxRequests, RaceMods, 0, RaceContents, {PathA}, {}, {}, FALSE))
NextRace ==
    ThumbnailBinary \/ WorkerStep \/ WorkerPartialWrite \/ ModifyFile
SpecRace == InitRace /\ [][NextRace]_vars

\* SpecFault: /thumbnail-binary requests while cache reads and writes fail.
FaultContents == {"png1", "psd", "gif", "bad"}
InitFault ==
    InitServer({[p \in {PathA} |-> File(c, 10)] : c \in FaultContents},
               Env(MaxRequests, 0, MaxFaults, {}, {PathA}, {}, {}, FALSE))
NextFault == ThumbnailBinary \/ WorkerStep \/ WorkerFault
SpecFault == InitFault /\ [][NextFault]_vars

\* SpecBatch: the batch and the binary endpoints over two files and a path
\* that does not exist.
BatchFiles ==
    {[p \in {PathA, PathB, PathM} |->
        IF p = PathA THEN File(ca, 10)
        ELSE IF p = PathB THEN File(cb, 11) ELSE NoFile] :
     ca \in {"png1", "ch2", "gif", "psd", "bad"}, cb \in {"png2", "ico", "exr"}}
Batches == {<<PathA, PathM>>, <<PathA, PathB>>, <<PathM>>,
            <<PathB, PathM, PathA>>}
InitBatch ==
    InitServer(BatchFiles,
               Env(BatchRequests, 0, 0, {}, {PathA, PathM}, Batches, Batches,
                   FALSE))
NextBatch ==
    ParallelBatch \/ LegacyBatch \/ ThumbnailBinary \/ FullImageBinaryRequest
    \/ WorkerStep
SpecBatch == InitBatch /\ [][NextBatch]_vars

\* SpecPool: a parallel batch larger than the pool, and a legacy batch.
InitPool ==
    InitServer({[p \in {PathA} |-> File("png1", 10)]},
               Env(MaxRequests, 0, 0, {}, {PathA},
                   {[i \in 1..(MAX_WORKERS + 1) |-> PathA]}, {<<PathA>>},
                   FALSE))
NextPool == ParallelBatch \/ LegacyBatch \/ WorkerStep
SpecPool == InitPool /\ [][NextPool]_vars

(***************************************************************************)
(* What a request for a file gives when the thumbnail is built afresh.     *)
(***************************************************************************)
Fresh(file, size) == BuildThumbnail([p \in {PathA} |-> file], PathA, size)
FreshOk(file, size) == Fresh(file, size).ok /\ Fresh(file, size).val # None
FreshBytes(file, size) == Fresh(file, size).val[1].img_bytes
PilOnly(content) == cv2_imread(content) = None /\ PIL_open(content) # None
DoneTasks == {t \in DOMAIN tasks : tasks[t].pc = "done"}
DoneReqs == {r \in DOMAIN reqs : reqs[r].state = "done"}

(***************************************************************************)
(* Batch endpoints.                                                        *)
(***************************************************************************)
Distinct(paths) ==
    \A i, j \in 1..Len(paths) : paths[i] = paths[j] => i = j
Missing(paths) == {i \in 1..Len(paths) : ~os_path_exists(fs, paths[i])}

\* The entries of a batch response, as a set of <<path, success>> pairs, and
\* how many there are.
EntryCount(r) ==
    IF reqs[r].kind = "parallel" THEN Len(reqs[r].response.thumbnails)
    ELSE Cardinality(DOMAIN reqs[r].response.thumbnails)
EntryFor(r, path) ==
    IF reqs[r].kind = "parallel"
    THEN {reqs[r].response.thumbnails[i] :
            i \in {j \in 1..Len(reqs[r].response.thumbnails) :
                        reqs[r].response.thumbnails[j].path = path}}
    ELSE {reqs[r].response.thumbnails[p] :
            p \in {q \in DOMAIN reqs[r].response.thumbnails : q = path}}

OneMissingBatch(r) ==
    /\ reqs[r].kind \in {"parallel", "legacy"} /\ reqs[r].state = "done"
    /\ Distinct(reqs[r].paths)
    /\ Cardinality(Missing(reqs[r].paths)) = 1

\* C1: a batch of N distinct paths of which exactly one does not exist is
\* answered, by either batch endpoint, with exactly N entries, one per path,
\* and the entry of the missing path reports success = false.
C1_OneEntryPerPath ==
    \A r \in DOMAIN reqs : OneMissingBatch(r) =>
        /\ EntryCount(r) = Len(reqs[r].paths)
        /\ \A i \in 1..Len(reqs[r].paths) :
             /\ Cardinality(EntryFor(r, reqs[r].paths[i])) = 1
             /\ i \in Missing(reqs[r].paths) =>
                  \A e \in EntryFor(r, reqs[r].paths[i]) : ~e.success

\* What C1 asks holds of the legacy endpoint alone.
C1_LegacyOnly ==
    \A r \in DOMAIN reqs : (OneMissingBatch(r) /\ reqs[r].kind = "legacy") =>
        /\ EntryCount(r) = Len(reqs[r].paths)
        /\ \A i \in 1..Len(reqs[r].paths) :
             /\ Cardinality(EntryFor(r, reqs[r].paths[i])) = 1
             /\ i \in Missing(reqs[r].paths) =>
                  \A e \in EntryFor(r, reqs[r].paths[i]) : ~e.success

\* The items a batch hands to a pipeline, and whether one of them raises.
Dispatched(r) ==
    IF reqs[r].kind = "parallel" THEN Existing(reqs[r].paths)
    ELSE reqs[r].paths
Raises(path, size) ==
    os_path_exists(fs, path) /\ ~BuildThumbnail(fs, path, size).ok
LegacyRaises(path, size) ==
    /\ os_path_exists(fs, path)
    /\ \/ /\ load_image_opencv(fs, path) # None
          /\ ~create_thumbnail(load_image_opencv(fs, path)[1], size).ok
       \/ /\ load_image_opencv(fs, path) = None
          /\ load_image_pil(fs, path) # None
          /\ ~image_to_bytes(FlattenRGBA(PIL_thumbnail(
                    load_image_pil(fs, path)[1], size)), 85).ok
ItemRaises(r, path) ==
    IF reqs[r].kind = "parallel" THEN Raises(path, reqs[r].size)
    ELSE LegacyRaises(path, reqs[r].size)

BatchWithRaisingItem(r) ==
    /\ reqs[r].kind \in {"parallel", "legacy"} /\ reqs[r].state = "done"
    /\ Distinct(reqs[r].paths)
    /\ Dispatched(r) # <<>>
    /\ \E i \in 1..Len(Dispatched(r)) : ItemRaises(r, Dispatched(r)[i])

\* The outcome an item has on its own: whether it succeeds, and with which
\* bytes, is decided by its own file alone.
OwnOutcome(r, path, e) ==
    IF reqs[r].kind = "parallel"
    THEN LET own == BuildThumbnail(fs, path, reqs[r].size)
         IN /\ e.success = (own.ok /\ own.val # None)
            /\ e.success => e.image_bytes = own.val[1].img_bytes
    ELSE e = LegacyItem(fs, path, reqs[r].size)

\* C6: in a batch where an item's pipeline raises, the batch response still
\* reports success, every dispatched item has its own entry, the raising
\* item's entry is a failure, and every entry is what the item's own file
\* gives, whatever its siblings did.
C6_BatchIsolation ==
    \A r \in DOMAIN reqs : BatchWithRaisingItem(r) =>
        /\ reqs[r].response.success
        /\ EntryCount(r) = Len(Dispatched(r))
        /\ \A i \in 1..Len(Dispatched(r)) :
             LET path == Dispatched(r)[i]
             IN /\ EntryFor(r, path) # {}
                /\ \A e \in EntryFor(r, path) :
                     /\ OwnOutcome(r, path, e)
                     /\ ItemRaises(r, path) => (~e.success /\ e.error # "")

C6_Witness ==
    \E r \in DOMAIN reqs :
        /\ BatchWithRaisingItem(r) /\ reqs[r].kind = "parallel"
        /\ reqs[r].paths = <<PathB, PathM, PathA>>
        /\ Raises(PathA, reqs[r].size)
        /\ \E e \in EntryFor(r, PathB) : e.success /\ ~e.from_cache
        /\ \E e \in EntryFor(r, PathA) : ~e.success

(***************************************************************************)
(* Binary endpoints.                                                       *)
(***************************************************************************)
\* C10: /thumbnail-binary and /full-image-binary answer a path that does not
\* exist with HTTP 404 and a message.
C10_MissingIs404 ==
    \A r \in DOMAIN reqs :
        (/\ reqs[r].kind \in {"binary", "full-binary"} /\ reqs[r].state = "done"
         /\ ~os_path_exists(fs, reqs[r].paths[1])) =>
            reqs[r].response.status = 404 /\ reqs[r].response.detail # ""

(***************************************************************************)
(* The cache under a changing source file.                                 *)
(***************************************************************************)
\* A finished request that ran alone, with the file untouched while it ran,
\* after an earlier such request for the same (path, size).
Undisturbed(t) == tasks[t].pc = "done" /\ ~tasks[t].disturbed
Follows(t) == Undisturbed(t) /\ tasks[t].prev # None /\ tasks[t].prev[1].clean

\* C4: once a thumbnail was requested and cached, and the file's content and
\* modification time were then both changed (to a content that decodes),
\* the next request is not served from the cache: it reports
\* from_cache = False and carries the thumbnail of the new content.
C4_NoStaleBytes ==
    \A t \in DOMAIN tasks :
        (/\ Follows(t)
         /\ tasks[t].prev[1].result.success
         /\ tasks[t].seen0.content # tasks[t].prev[1].file.content
         /\ tasks[t].seen0.mtime # tasks[t].prev[1].file.mtime
         /\ FreshOk(tasks[t].seen0, tasks[t].size)) =>
            /\ tasks[t].result[1].success
            /\ ~tasks[t].result[1].from_cache
            /\ tasks[t].result[1].image_bytes
                   = FreshBytes(tasks[t].seen0, tasks[t].size)

\* C5: for a file only the fallback decoder opens, the first request
\* succeeds with from_cache = False, and the request right after it, the
\* file unchanged, succeeds with from_cache = True and the same bytes.
C5_FallbackThenCached ==
    \A t \in DOMAIN tasks :
        (Undisturbed(t) /\ PilOnly(tasks[t].seen0.content)) =>
            /\ tasks[t].prev = None =>
                 tasks[t].result[1].success /\ ~tasks[t].result[1].from_cache
            /\ (/\ Follows(t)
                /\ tasks[t].prev[1].file = tasks[t].seen0
                /\ tasks[t].prev[1].result.success
                /\ ~tasks[t].prev[1].result.from_cache) =>
                 /\ tasks[t].result[1].success
                 /\ tasks[t].result[1].from_cache
                 /\ tasks[t].result[1].image_bytes
                        = tasks[t].prev[1].result.image_bytes

(***************************************************************************)
(* Concurrent writers, failing cache I/O, the pool.                        *)
(***************************************************************************)
Writers(key) ==
    {t \in DOMAIN tasks : tasks[t].wrote /\ tasks[t].cache_key = Some(key)}
Quiet(key) ==
    \A t \in DOMAIN tasks :
        tasks[t].cache_key = Some(key) => tasks[t].pc = "done"

\* C7: when two workers missed on the same key and both built and wrote,
\* then once they are done the entry holds exactly the bytes of one of
\* them, and each returned a success carrying its own bytes.
C7_LastWriterWins ==
    \A key \in DOMAIN cache :
        (Quiet(key) /\ Cardinality(Writers(key)) >= 2) =>
            /\ \E t \in Writers(key) : cache[key] = tasks[t].built[1].img_bytes
            /\ \A t \in Writers(key) :
                 /\ tasks[t].result[1].success
                 /\ tasks[t].result[1].image_bytes = tasks[t].built[1].img_bytes

\* C8: a request that met a failing cache read or write returns what a
\* fresh build of its file gives: the same success flag, and on success the
\* freshly built bytes.
C8_CacheFaultHarmless ==
    \A t \in DoneTasks : tasks[t].io_failed =>
        /\ tasks[t].result[1].kind = "result"
        /\ tasks[t].result[1].success = FreshOk(tasks[t].seen0, tasks[t].size)
        /\ tasks[t].result[1].success =>
             /\ tasks[t].result[1].image_bytes
                    = FreshBytes(tasks[t].seen0, tasks[t].size)
             /\ ~tasks[t].result[1].from_cache

\* One request met a failing read, rebuilt and wrote; another met a failing
\* write and returned its bytes all the same.
C8_Witness ==
    \E t, u \in DoneTasks :
        /\ tasks[t].io_failed /\ tasks[t].wrote /\ tasks[t].result[1].success
        /\ tasks[u].io_failed /\ ~tasks[u].wrote /\ tasks[u].built # None
        /\ tasks[u].result[1].success

\* C9: the per-item pipelines running at one time, in the pool and in the
\* handlers that decode by themselves, number at most MAX_WORKERS.
InlinePipelines ==
    IF loop.busy /\ loop.idx <= Len(reqs[loop.req].paths) THEN 1 ELSE 0

C9_AtMostMaxWorkers ==
    Cardinality(Running) + InlinePipelines <= MAX_WORKERS

\* What C9 asks holds of the pipelines that run in the pool.
C9_PoolBounded == Cardinality(Running) <= MAX_WORKERS

(***************************************************************************)
(* SpecThumb: create_thumbnail_optimized applied to an array of every      *)
(* small width and height, for every target size up to its longer side.    *)
(***************************************************************************)
ThumbArrays ==
    {Array(w, h, f[1], f[2], <<1>>) :
        w \in 1..MaxSide, h \in 1..MaxSide,
        f \in {<<3, "uint8">>, <<4, "float32">>}}

InitThumb ==
    /\ fs = <<>> /\ cache = <<>> /\ env = <<>>
    /\ Idle
    /\ \E a \in ThumbArrays, size \in 1..MaxSide :
         /\ size <= Max(a.w, a.h)
         /\ probe = [kind |-> "thumb", img |-> a, size |-> size,
                     done |-> FALSE]

BuildThumb ==
    /\ probe.kind = "thumb" /\ ~probe.done
    /\ probe' = [kind |-> "thumb", img |-> probe.img, size |-> probe.size,
                 done |-> TRUE,
                 out |-> create_thumbnail_optimized(probe.img, probe.size)]
    /\ UNCHANGED <<fs, cache, tasks, queue, reqs, loop, env>>

NextThumb == BuildThumb
SpecThumb == InitThumb /\ [][NextThumb]_vars

\* C11: for a target size up to the longer side of the source, the thumbnail
\* of create_thumbnail_optimized has its longer side equal to the target
\* size, and its shorter side is the proportionally scaled value rounded to
\* the nearest integer, and 1 when that would be 0.
C11_ThumbnailDims ==
    (probe.kind = "thumb" /\ probe.done /\ probe.out.ok) =>
        LET w == probe.img.w
            h == probe.img.h
            long == Max(w, h)
            short == Min(w, h)
            out_long == IF w > h THEN probe.out.val.w ELSE probe.out.val.h
            out_short == IF w > h THEN probe.out.val.h ELSE probe.out.val.w
        IN /\ out_long = probe.size
           /\ out_short >= 1
           /\ \/ 2 * Abs(out_short * long - short * probe.size) <= long
              \/ out_short = 1 /\ 2 * short * probe.size < long

(***************************************************************************)
(* Width and height in the responses.                                      *)
(***************************************************************************)
\* The width and height a JPEG carries in its header, as image_to_bytes
\* wrote them.
JpegDims(image_bytes) == <<image_bytes[2], image_bytes[3]>>

\* C12: every successful thumbnail reports the width and height of the
\* thumbnail it returns, fresh or from the cache: each successful entry of
\* /batch-thumbnails-parallel and the response metadata of /thumbnail-binary.
C12_DimsReported ==
    \A r \in DoneReqs :
        /\ (reqs[r].kind = "binary" /\ reqs[r].response.status = 200) =>
              reqs[r].response.dims
                  = Some(JpegDims(reqs[r].response.content))
        /\ (reqs[r].kind = "parallel") =>
              \A i \in 1..Len(reqs[r].response.thumbnails) :
                  LET e == reqs[r].response.thumbnails[i]
                  IN e.success =>
                         <<e.width, e.height>> = JpegDims(e.image_bytes)

(***************************************************************************)
(* Where the image work runs.                                              *)
(***************************************************************************)
\* Request r has decoded and encoded an image.
ImageMade(r) ==
    \/ \E t \in DOMAIN tasks : tasks[t].req = r /\ tasks[t].built # None
    \/ \E p \in DOMAIN reqs[r].thumbs : reqs[r].thumbs[p].success
    \/ /\ reqs[r].kind = "full-binary"
       /\ reqs[r].response.status = 200

\* C13: image work runs in the worker pool and never in the control flow
\* that accepts requests: the event loop is never held by a handler that
\* still has an image to decode, and every request that made an image did
\* so in tasks it handed to the pool.
C13_DecodeOnPool ==
    /\ ~(loop.busy /\ loop.idx <= Len(reqs[loop.req].paths))
    /\ \A r \in DOMAIN reqs : ImageMade(r) => reqs[r].tasks # <<>>

(***************************************************************************)
(* The two decoders.                                                       *)
(***************************************************************************)
\* What a finished request reports for each of its paths.
Outcomes(r) ==
    CASE reqs[r].kind \in {"binary", "full-binary"} ->
            {[path |-> reqs[r].paths[1],
              success |-> reqs[r].response.status = 200,
              error |-> reqs[r].response.detail]}
      [] reqs[r].kind = "parallel" ->
            {[path |-> reqs[r].response.thumbnails[i].path,
              success |-> reqs[r].response.thumbnails[i].success,
              error |-> reqs[r].response.thumbnails[i].error] :
                i \in 1..Len(reqs[r].response.thumbnails)}
      [] OTHER ->
            {[path |-> p,
              success |-> reqs[r].response.thumbnails[p].success,
              error |-> reqs[r].response.thumbnails[p].error] :
                p \in DOMAIN reqs[r].response.thumbnails}

NotDecodable ==
    {"Failed to load image", "Failed to load image with both OpenCV and PIL",
     "Failed to load full image"}

\* C14: an endpoint reports a file as not decodable only when neither
\* cv2.imread nor PIL.Image.open decodes it, and a file that only PIL
\* decodes is answered with a success.
C14_BothDecodersTried ==
    \A r \in DoneReqs : \A o \in Outcomes(r) :
        os_path_exists(fs, o.path) =>
            /\ (~o.success /\ o.error \in NotDecodable) =>
                   /\ cv2_imread(fs[o.path].content) = None
                   /\ PIL_open(fs[o.path].content) = None
            /\ PilOnly(fs[o.path].content) => o.success

(***************************************************************************)
(* SpecLive: parallel and legacy batches with the pool's threads and the   *)
(* event loop scheduled fairly: a thread that can take or continue a work  *)
(* item does so, a handler whose futures are done is resumed, and a        *)
(* handler that holds the event loop goes on.  Clients need not send.      *)
(***************************************************************************)
LiveFiles ==
    {[p \in {PathA, PathB, PathM} |->
        IF p = PathA THEN File(ca, 10)
        ELSE IF p = PathB THEN File("png2", 11) ELSE NoFile] :
     ca \in {"png1", "gif", "bad"}}
LiveBatches == {<<PathA, PathB>>, <<PathB, PathM>>}
InitLive ==
    InitServer(LiveFiles,
               Env(BatchRequests, 0, 0, {}, {}, LiveBatches, {<<PathA, PathM>>},
                   FALSE))
NextLive == ParallelBatch \/ LegacyBatch \/ WorkerStep
PoolRuns == WorkerStep
BatchResumes == \E r \in DOMAIN reqs : ParallelBatchFinish(r)
LoopRuns == LegacyBatchItem \/ LegacyBatchFinish
SpecLive ==
    /\ InitLive /\ [][NextLive]_vars
    /\ WF_vars(PoolRuns) /\ WF_vars(BatchResumes) /\ WF_vars(LoopRuns)

Finished(t) ==
    /\ t \in DOMAIN tasks
    /\ tasks[t].pc = "done"
    /\ tasks[t].result # None
    /\ tasks[t].result[1].kind = "result"
Answered(r) ==
    r \in DOMAIN reqs /\ reqs[r].state = "done" /\ reqs[r].response.status = 200

\* Every dispatched item has finished and every parallel batch is answered.
Settled ==
    /\ \A t \in DOMAIN tasks : Finished(t)
    /\ \A r \in DOMAIN reqs : reqs[r].kind = "parallel" => Answered(r)

\* C15: with the pool scheduled fairly, every item a batch dispatched
\* eventually finishes with a success or failure result and the batch is
\* eventually answered (whatever was dispatched, a later state has all of
\* it finished and answered); a batch is answered only once all its items
\* have finished, and no dispatched item is ever dropped or loses its
\* result.
C15_BatchCompletes ==
    /\ []<>Settled
    /\ [](\A r \in DOMAIN reqs :
            (reqs[r].kind = "parallel" /\ reqs[r].state = "done") =>
                \A i \in 1..Len(reqs[r].tasks) : Finished(reqs[r].tasks[i]))
    /\ [][\A t \in DOMAIN tasks :
            /\ t \in DOMAIN tasks'
            /\ Finished(t) => tasks'[t] = tasks[t]]_vars

C15_Witness ==
    /\ reqs # <<>>
    /\ Settled
    /\ \E r \in DOMAIN reqs, t, u \in DOMAIN tasks :
         /\ Answered(r) /\ reqs[r].tasks = <<t, u>>
         /\ ~tasks[t].result[1].success /\ tasks[u].result[1].success

(***************************************************************************)
(* The entries of the cache.                                               *)
(***************************************************************************)
\* C16: the set of keys in the cache only grows: no step removes an entry,
\* a new entry appears only under the key of a pipeline run that has built
\* and encoded its thumbnail, and an item that failed never got as far as
\* writing one.
C16_KeysOnlyGrow ==
    [][/\ DOMAIN cache \subseteq DOMAIN cache'
       /\ \A k \in DOMAIN cache' \ DOMAIN cache :
            \E t \in DOMAIN tasks :
                /\ tasks[t].cache_key = Some(k)
                /\ tasks[t].built # None
                /\ image_to_bytes(tasks[t].built[1].pil_img, 85)
                       = Ok(tasks[t].built[1].img_bytes)
       /\ \A t \in DOMAIN tasks' :
            (tasks'[t].pc = "done" /\ ~tasks'[t].result[1].success) =>
                tasks'[t].built = None /\ ~tasks'[t].wrote]_vars

C16_Witness ==
    /\ Cardinality(DOMAIN cache) = 2
    /\ \E t, u, v \in DoneTasks :
         /\ t # u
         /\ tasks[t].wrote /\ tasks[u].wrote
         /\ ~tasks[v].result[1].success

(***************************************************************************)
(* A cache entry read while it is written.                                 *)
(***************************************************************************)
\* The complete bytes the pipeline runs have built for a key.
BuiltFor(key) ==
    {tasks[u].built[1].img_bytes :
        u \in {x \in DOMAIN tasks : /\ tasks[x].cache_key = key
                                    /\ tasks[x].built # None}}

\* C17: a result with from_cache = True carries the complete bytes that some
\* pipeline run built and wrote for that key, never a part of them.
C17_NoPartialReads ==
    \A t \in DoneTasks :
        (tasks[t].result[1].success /\ tasks[t].result[1].from_cache) =>
            tasks[t].result[1].image_bytes \in BuiltFor(tasks[t].cache_key)

====
